---- MODULE Spec2Model ----
(***************************************************************************)
(* Persona-driven evaluation engine: ActivePersona (conversation state,    *)
(* input normalisation, backend call) and EvaluatorBase (trial loop, JSON  *)
(* extraction, merge of the parsed object over the entry template).        *)
(*                                                                         *)
(* Texts are sequences of lexical units: a unit is one of the structural   *)
(* characters { } " : , or a run of characters holding none of them.       *)
(* Scanning a text unit by unit visits the braces in the order in which    *)
(* the character scan of the source visits them.                           *)
(***************************************************************************)
EXTENDS Integers, Sequences, FiniteSets, TLC

\* ------------------------------------------------------------------ bounds
MaxIter == 3       \* largest iterations argument given to evaluate
MaxBelow == 1      \* iterations arguments start at 0 - MaxBelow
MaxHist == 7       \* longest message_history explored without a reset
MaxCalls == 2      \* direct interact calls explored on a fresh history
MaxLen == 6        \* longest text given to _extract_json on its own, in units
MaxPair == 2       \* largest iterations argument when two personas are evaluated
MaxReviews == 2    \* longest list of reviews given to merge_reviews

\* ------------------------------------------------------------------ values
Personas == {"A"}

\* The persona instances that exist: B is constructed with the name of A and
\* with another backend
Instances == {"A", "B"}
NoneValue == "<None>"

\* The system_prompt a persona is constructed with (None is the default)
SystemPrompts == {"You are Ana", NoneValue}
Q == "\""

\* ActivePersona.name and llm_client.model_name of instance p: instance B has
\* the name of A and another backend
PersonaName(p) == IF p = "B" THEN "persona_A" ELSE "persona_" \o p
ModelName(p) == "model_" \o p


\* open(image_path, 'rb').read() followed by base64.b64encode(...).decode
FileBytes(path) == "bytes(" \o path \o ")"
B64Encode(bytes) == "b64:" \o bytes

\* ---- turns of message_history; content is held in the field of its role
SystemTurn(prompt) == [role |-> "system", sys |-> prompt, parts |-> <<>>, reply |-> <<>>]
UserTurn(processed) == [role |-> "user", sys |-> "", parts |-> processed, reply |-> <<>>]
AssistantTurn(response) == [role |-> "assistant", sys |-> "", parts |-> <<>>, reply |-> response]

\* ---- messages given to interact
StrMsg(t) == [kind |-> "str", type |-> "", text |-> t, path |-> ""]
TextMsg(t) == [kind |-> "dict", type |-> "text", text |-> t, path |-> ""]
ImageMsg(p) == [kind |-> "dict", type |-> "image", text |-> "", path |-> p]
AudioMsg(p) == [kind |-> "dict", type |-> "audio", text |-> "", path |-> p]
VideoMsg(p) == [kind |-> "dict", type |-> "video", text |-> "", path |-> p]
IntMsg == [kind |-> "int", type |-> "", text |-> "", path |-> ""]
NoMsg == [kind |-> "none", type |-> "", text |-> "", path |-> ""]

\* ---- parts stored in a user turn
TextPart(t) == [type |-> "text", text |-> t, url |-> ""]
ImageUrlPart(u) == [type |-> "image_url", text |-> "", url |-> u]

BareInput(m) == [isList |-> FALSE, value |-> m, items |-> <<>>]
ListInput(ms) == [isList |-> TRUE, value |-> NoMsg, items |-> ms]

\* ------------------------------------------------------------------ ActivePersona
\* Faulty variant: a persona without a system prompt gets no system turn
ResetSkipNone(prompt) ==
  IF prompt = NoneValue THEN <<>> ELSE Append(<<>>, SystemTurn(prompt))

\* Faulty variant: the system turn is rebuilt without the stored prompt
ResetBlankPrompt(prompt) == Append(<<>>, SystemTurn(""))

\* reset_history: message_history = [] followed by the append of the system turn
ResetHistory(prompt) == Append(<<>>, SystemTurn(prompt))

\* if not isinstance(messages, list): messages = [messages]
AsList(input) == IF input.isList THEN input.items ELSE <<input.value>>

\* Faulty variant: an image message is stored as a reference to its file
ProcessKeepsPath(m, files) ==
  IF m.kind = "str" \/ (m.kind = "dict" /\ m.type = "text")
    THEN [raised |-> "", add |-> <<TextPart(m.text)>>]
  ELSE IF m.kind = "dict" /\ m.type = "image"
    THEN IF m.path \in files
           THEN [raised |-> "", add |-> <<ImageUrlPart(m.path)>>]
           ELSE [raised |-> "FileNotFoundError", add |-> <<>>]
  ELSE IF m.kind = "dict" /\ m.type = "audio"
    THEN [raised |-> "AttributeError", add |-> <<>>]
  ELSE [raised |-> "", add |-> <<>>]

\* Faulty variant: a message of no known kind is refused
ProcessRejectsUnknown(m, files) ==
  IF m.kind = "str" \/ (m.kind = "dict" /\ m.type = "text")
    THEN [raised |-> "", add |-> <<TextPart(m.text)>>]
  ELSE IF m.kind = "dict" /\ m.type = "image"
    THEN IF m.path \in files
           THEN [raised |-> "",
                 add |-> <<ImageUrlPart("data:image/jpeg;base64," \o B64Encode(FileBytes(m.path)))>>]
           ELSE [raised |-> "FileNotFoundError", add |-> <<>>]
  ELSE IF m.kind = "dict" /\ m.type = "audio"
    THEN [raised |-> "AttributeError", add |-> <<>>]
  ELSE [raised |-> "ValueError", add |-> <<>>]

\* One pass of the normalisation loop body for message m; files is the set of
\* paths that can be opened. An audio message reads self.whisper_transcriber,
\* an attribute the class never assigns.
ProcessMessage(m, files) ==
  IF m.kind = "str"
    THEN [raised |-> "", add |-> <<TextPart(m.text)>>]
  ELSE IF m.kind = "dict" /\ m.type = "text"
    THEN [raised |-> "", add |-> <<TextPart(m.text)>>]
  ELSE IF m.kind = "dict" /\ m.type = "image"
    THEN IF m.path \in files
           THEN [raised |-> "",
                 add |-> <<ImageUrlPart("data:image/jpeg;base64," \o B64Encode(FileBytes(m.path)))>>]
           ELSE [raised |-> "FileNotFoundError", add |-> <<>>]
  ELSE IF m.kind = "dict" /\ m.type = "audio"
    THEN [raised |-> "AttributeError", add |-> <<>>]
  ELSE [raised |-> "", add |-> <<>>]

\* for message in messages: ... ; the first raise leaves the loop and the call
RECURSIVE Normalize(_, _, _, _)
Normalize(ms, i, processed_messages, files) ==
  IF i > Len(ms)
    THEN [raised |-> "", processed |-> processed_messages]
    ELSE LET r == ProcessMessage(ms[i], files) IN
         IF r.raised # ""
           THEN [raised |-> r.raised, processed |-> processed_messages]
           ELSE Normalize(ms, i + 1, processed_messages \o r.add, files)

\* Faulty variant: the user turn is appended to the history before the loop has
\* finished, so a failed normalisation leaves the parts built so far behind
CommitPartial(history, norm) == Append(history, UserTurn(norm.processed))

\* Faulty variant: the history is reassigned to the new user turn, not appended to
ReplaceHistory(history, norm) ==
  IF norm.raised # "" THEN history ELSE <<UserTurn(norm.processed)>>

\* Faulty variant: the user turn is sent but not stored
SkipUserTurn(history, norm) == history

\* The history as interact leaves it once normalisation has produced `norm`
HistoryAfterNormalize(history, norm) ==
  IF norm.raised # "" THEN history ELSE Append(history, UserTurn(norm.processed))

\* Faulty variant: the completion is returned but never stored
DropAssistantTurn(history, be) == history

\* Faulty variant: a failed backend call takes the user turn back out
RollbackOnFailure(history, be) ==
  IF be.fails THEN SubSeq(history, 1, Len(history) - 1)
  ELSE Append(history, AssistantTurn(be.text))

\* Faulty variant: the completion is stored in place of the user turn
OverwriteUserTurn(history, be) ==
  IF be.fails THEN history ELSE [history EXCEPT ![Len(history)] = AssistantTurn(be.text)]

\* The history as interact leaves it once the backend has answered `be`
HistoryAfterInvoke(history, be) ==
  IF be.fails THEN history ELSE Append(history, AssistantTurn(be.text))

\* Faulty variant: the backend receives the new user turn alone
InteractSendsNewTurn(history, input, files, be) ==
  LET norm == Normalize(AsList(input), 1, <<>>, files)
      h1 == HistoryAfterNormalize(history, norm)
  IN IF norm.raised # ""
       THEN [raised |-> norm.raised, history |-> h1, invoked |-> FALSE,
             sent |-> <<>>, appendedAt |-> 0, response |-> <<>>]
     ELSE [raised |-> IF be.fails THEN "BackendError" ELSE "",
           history |-> HistoryAfterInvoke(h1, be), invoked |-> TRUE,
           sent |-> <<h1[Len(h1)]>>, appendedAt |-> Len(history),
           response |-> IF be.fails THEN <<>> ELSE be.text]

\* interact(messages) on `history`, with the backend answering `be`:
\* the exception raised ("" for none), the history left, the conversation the
\* backend received, whether it was invoked, and the value returned.
InteractResult(history, input, files, be) ==
  LET norm == Normalize(AsList(input), 1, <<>>, files)
      h1 == HistoryAfterNormalize(history, norm)
  IN IF norm.raised # ""
       THEN [raised |-> norm.raised, history |-> h1, invoked |-> FALSE,
             sent |-> <<>>, appendedAt |-> 0, response |-> <<>>]
     ELSE [raised |-> IF be.fails THEN "BackendError" ELSE "",
           history |-> HistoryAfterInvoke(h1, be), invoked |-> TRUE,
           sent |-> h1, appendedAt |-> Len(history),
           response |-> IF be.fails THEN <<>> ELSE be.text]

\* ------------------------------------------------------------------ JSON
\* The units json.loads reads as a number or a literal outside a string.
JsonScalars == {"1", "2", "3", "5", "true", "false", "null"}

EmptyDict == [k \in {} |-> <<>>]

\* Index of the next quote at or after i, 0 when there is none
RECURSIVE NextQuote(_, _)
NextQuote(t, i) ==
  IF i > Len(t) THEN 0 ELSE IF t[i] = Q THEN i ELSE NextQuote(t, i + 1)

\* json.loads, by recursive descent over the units of t. A value is a string
\* (quote .. next quote; any unit may stand between them), a scalar, or an
\* object {"key": value, ...}. A parsed object maps each key (the units
\* between its quotes) to the units of its value; a repeated key keeps the
\* last value, as a Python dict does.
RECURSIVE ParseValue(_, _)
RECURSIVE ParseMembers(_, _, _)
ParseString(t, i) ==
  LET j == NextQuote(t, i + 1) IN
  IF i > Len(t) \/ t[i] # Q \/ j = 0
    THEN [ok |-> FALSE, next |-> 0, val |-> <<>>]
    ELSE [ok |-> TRUE, next |-> j + 1, val |-> SubSeq(t, i + 1, j - 1)]

ParseValue(t, i) ==
  IF i > Len(t) THEN [ok |-> FALSE, next |-> 0, kind |-> "", members |-> EmptyDict]
  ELSE IF t[i] = Q THEN
    LET s == ParseString(t, i) IN
    [ok |-> s.ok, next |-> s.next, kind |-> "string", members |-> EmptyDict]
  ELSE IF t[i] = "{" THEN
    IF i + 1 <= Len(t) /\ t[i + 1] = "}"
      THEN [ok |-> TRUE, next |-> i + 2, kind |-> "object", members |-> EmptyDict]
      ELSE ParseMembers(t, i + 1, EmptyDict)
  ELSE IF t[i] \in JsonScalars THEN
    [ok |-> TRUE, next |-> i + 1, kind |-> "scalar", members |-> EmptyDict]
  ELSE [ok |-> FALSE, next |-> 0, kind |-> "", members |-> EmptyDict]

ParseMembers(t, i, acc) ==
  LET bad == [ok |-> FALSE, next |-> 0, kind |-> "", members |-> EmptyDict]
      key == ParseString(t, i)
  IN IF ~key.ok THEN bad
     ELSE IF key.next > Len(t) \/ t[key.next] # ":" THEN bad
     ELSE LET v == ParseValue(t, key.next + 1) IN
          IF ~v.ok THEN bad
          ELSE LET acc2 == (key.val :> SubSeq(t, key.next + 1, v.next - 1)) @@ acc IN
               IF v.next > Len(t) THEN bad
               ELSE IF t[v.next] = "," THEN ParseMembers(t, v.next + 1, acc2)
               ELSE IF t[v.next] = "}"
                 THEN [ok |-> TRUE, next |-> v.next + 1, kind |-> "object", members |-> acc2]
               ELSE bad

JsonLoads(t) ==
  LET r == ParseValue(t, 1) IN
  IF r.ok /\ r.next = Len(t) + 1
    THEN [raised |-> "", kind |-> r.kind, value |-> r.members]
    ELSE [raised |-> "JSONDecodeError", kind |-> "", value |-> EmptyDict]

\* A text in which some stretch of units is a JSON object
HoldsJsonObject(text) ==
  \E i \in 1..Len(text) : \E j \in i..Len(text) :
    /\ text[i] = "{"
    /\ JsonLoads(SubSeq(text, i, j)).raised = ""

\* ------------------------------------------------------------------ _extract_json
\* Faulty variant: the scan starts at the first character of the text
FirstCharacter(text, i) == IF i > Len(text) THEN 0 ELSE i

\* re.search(r'({.*)', text, re.DOTALL): index of the first "{", 0 for no match
RECURSIVE FirstBrace(_, _)
FirstBrace(text, i) ==
  IF i > Len(text) THEN 0 ELSE IF text[i] = "{" THEN i ELSE FirstBrace(text, i + 1)

\* Faulty variant: the scan stops at the first closing brace, whatever the depth
ScanFirstClose(json_part, i, stack) ==
  LET close == {j \in 1..Len(json_part) : json_part[j] = "}"} IN
  IF close = {}
    THEN [raised |-> "ValueError", msg |-> "Could not extract complete JSON object", json |-> <<>>]
    ELSE [raised |-> "", msg |-> "", json |->
            SubSeq(json_part, 1, CHOOSE j \in close : \A k \in close : j <= k)]

\* Faulty variant: braces between two quotes are not counted
ScanQuoteAware(json_part, i, stack) ==
  LET outside(j) == Cardinality({k \in 1..(j - 1) : json_part[k] = Q}) % 2 = 0
      opened(j) == Cardinality({k \in 1..j : json_part[k] = "{" /\ outside(k)})
      closed(j) == Cardinality({k \in 1..j : json_part[k] = "}" /\ outside(k)})
      zero == {j \in 1..Len(json_part) :
                 json_part[j] = "}" /\ outside(j) /\ opened(j) = closed(j)}
  IN IF zero = {}
       THEN [raised |-> "ValueError", msg |-> "Could not extract complete JSON object", json |-> <<>>]
       ELSE [raised |-> "", msg |-> "", json |->
               SubSeq(json_part, 1, CHOOSE j \in zero : \A k \in zero : j <= k)]

\* for i, c in enumerate(json_part): the stack holds the indexes of the open braces
RECURSIVE ScanBraces(_, _, _)
ScanBraces(json_part, i, stack) ==
  IF i > Len(json_part)
    THEN [raised |-> "ValueError", msg |-> "Could not extract complete JSON object", json |-> <<>>]
  ELSE IF json_part[i] = "{"
    THEN ScanBraces(json_part, i + 1, Append(stack, i))
  ELSE IF json_part[i] = "}"
    THEN IF stack = <<>>
           THEN [raised |-> "IndexError", msg |-> "pop from empty list", json |-> <<>>]
         ELSE IF Len(stack) = 1
           THEN [raised |-> "", msg |-> "", json |-> SubSeq(json_part, 1, i)]
         ELSE ScanBraces(json_part, i + 1, SubSeq(stack, 1, Len(stack) - 1))
  ELSE ScanBraces(json_part, i + 1, stack)

\* Faulty variant: the text is handed on whole, with or without a brace
ExtractWholeText(text) == [raised |-> "", msg |-> "", json |-> text]

ExtractJson(text) ==
  LET first == FirstBrace(text, 1) IN
  IF first = 0
    THEN [raised |-> "ValueError", msg |-> "No JSON object found in text", json |-> <<>>]
    ELSE ScanBraces(SubSeq(text, first, Len(text)), 1, <<>>)

\* ------------------------------------------------------------------ EvaluatorBase
\* The instruction text the evaluator is constructed with
EvaluationPrompt == "PROMPT"

\* The instruction texts an evaluator can hold: NielsenEvaluator.__init__ takes
\* len(evaluation_prompt), so the text is a string, possibly the empty one
EvaluationPrompts == {EvaluationPrompt, ""}

\* self.__class__.__name__ of the evaluator, and str.lower on class names
EvaluatorClass == "NielsenEvaluator"
Lower(name) ==
  IF name = "NielsenEvaluator" THEN "nielsenevaluator"
  ELSE IF name = "EvaluatorBase" THEN "evaluatorbase"
  ELSE name

\* Faulty variant: the file is named after the persona's complete name, which
\* ends with the backend's model label
SavedNameWithModel(p) == PersonaName(p) \o "_" \o ModelName(p)

\* persona_name of evaluate_and_save: the name attribute of the persona
SavedName(p) == PersonaName(p)

\* Faulty variant: the file name leaves the evaluator class out
CsvPathNoClass(dir, persona_name, class) ==
  dir \o "/" \o persona_name \o "_evaluation_results" \o ".csv"

\* csv_path of evaluate_and_save
CsvPath(dir, persona_name, class) ==
  dir \o "/" \o persona_name \o "_" \o Lower(class) \o "_evaluation_results" \o ".csv"

\* pd.DataFrame(evaluation_results) written by to_csv(index=False): one row
\* per record over the union of the records' keys, empty where a record has
\* no value for a column
CsvColumns(results) == UNION {DOMAIN results[k] : k \in 1..Len(results)}
CsvRows(results) ==
  [k \in 1..Len(results) |->
     [c \in CsvColumns(results) |->
        IF c \in DOMAIN results[k] THEN results[k][c] ELSE <<>>]]

\* Faulty variant: the iteration count is taken as given
NoClamp(n) == n

\* if iterations < 1: iterations = 1
ClampIterations(n) == IF n < 1 THEN 1 ELSE n

\* Faulty variant: every configured path gets an image message, on disk or not
AllImages(paths, i, files) ==
  [k \in 1..(Len(paths) - i + 1) |-> ImageMsg(paths[k + i - 1])]

\* _prepare_evaluation_messages: the questionnaire text, then one image
\* message per configured path for which os.path.exists holds
RECURSIVE ExistingImages(_, _, _)
ExistingImages(paths, i, files) ==
  IF i > Len(paths) THEN <<>>
  ELSE (IF paths[i] \in files THEN <<ImageMsg(paths[i])>> ELSE <<>>)
       \o ExistingImages(paths, i + 1, files)

PrepareEvaluationMessages(prompt, paths, files) ==
  <<TextMsg(prompt)>> \o ExistingImages(paths, 1, files)

\* entry_template of one evaluate call, built at time `now`: datetime.now()
\* is read once, here
EntryTemplate(p, now) ==
  (<<"timestamp">> :> <<"t" \o ToString(now)>>)
  @@ (<<"persona_name">> :> <<PersonaName(p)>>)
  @@ (<<"model">> :> <<ModelName(p)>>)

\* _preprocess_entry: the identity in EvaluatorBase; a subclass may override
\* it, and an override may raise or return something that is not a dict.
HookKinds == {"identity", "raises", "returnsNone"}
PreprocessEntry(hook, entry) ==
  IF hook = "identity" THEN [raised |-> "", isDict |-> TRUE, value |-> entry]
  ELSE IF hook = "raises" THEN [raised |-> "HookError", isDict |-> FALSE, value |-> EmptyDict]
  ELSE [raised |-> "", isDict |-> FALSE, value |-> EmptyDict]

\* entry = entry_template.copy(); entry.update(processed_entry)
MergeEntry(template, processed) ==
  IF ~processed.isDict
    THEN [raised |-> "TypeError", entry |-> EmptyDict]
    ELSE [raised |-> "", entry |-> processed.value @@ template]

\* The kinds of exception a trial can raise; each derives from Exception.
ExceptionKinds ==
  {"FileNotFoundError", "AttributeError", "BackendError", "ValueError",
   "IndexError", "JSONDecodeError", "HookError", "TypeError"}

\* Faulty variant: the handler catches the extraction and parsing errors only
CaughtJsonOnly(kind) == kind \in {"ValueError", "JSONDecodeError"}

\* except Exception as e: the kinds the handler of the trial loop catches
Caught(kind) == kind \in ExceptionKinds

\* Faulty variant: the history is never reset between trials
NeverReset(autoReset, prompt, history) == history

\* The history a trial starts from: if self.auto_reset: reset_history()
TrialStartHistory(autoReset, prompt, history) ==
  IF autoReset THEN ResetHistory(prompt) ELSE history

\* The body of the try block of one iteration, after interact returned `ir`:
\* extraction, parsing, hook and merge. raised = "" when an entry was built;
\* stage names the step that raised ("append" when none did).
BuildEntry(ir, hook, template) ==
  IF ir.raised # "" THEN [raised |-> ir.raised, stage |-> "interact", entry |-> EmptyDict]
  ELSE LET ex == ExtractJson(ir.response) IN
    IF ex.raised # "" THEN [raised |-> ex.raised, stage |-> "extract", entry |-> EmptyDict]
    ELSE LET js == JsonLoads(ex.json) IN
      IF js.raised # "" THEN [raised |-> js.raised, stage |-> "parse", entry |-> EmptyDict]
      ELSE LET pe == PreprocessEntry(hook, js.value) IN
        IF pe.raised # "" THEN [raised |-> pe.raised, stage |-> "hook", entry |-> EmptyDict]
        ELSE LET me == MergeEntry(template, pe) IN
          [raised |-> me.raised, stage |-> IF me.raised # "" THEN "merge" ELSE "append",
           entry |-> me.entry]

\* Faulty variant: entry = entry_template without the copy, so update writes
\* the parsed object into the template itself
TemplateAliased(template, built) ==
  IF built.stage = "append" THEN built.entry ELSE template

\* entry_template after the iteration: entry is a copy, and update changes the
\* copy alone
TemplateAfterTrial(template, built) == template

\* Faulty variant: an entry is appended whether or not a step raised
AlwaysAppend(results, built) == Append(results, built.entry)

\* Faulty variant: a successful iteration appends its entry twice
AppendTwice(results, built) ==
  IF built.raised = "" THEN Append(Append(results, built.entry), built.entry)
  ELSE results

\* evaluation_results after the iteration: appended to only when no step raised
ResultsAfterTrial(results, built) ==
  IF built.raised = "" THEN Append(results, built.entry) ELSE results

\* ------------------------------------------------------------------ GooglePlayScraper
\* A review row: scraped_at is an ISO timestamp, compared as a string by the
\* sort, which orders timestamps of one format by time; held here as a tick
Review(reviewer, review_text, scraped_at) ==
  [reviewer |-> reviewer, review_text |-> review_text, scraped_at |-> scraped_at]

\* identifier = f"{review.get('reviewer', '')}_{review.get('review_text', '')}"
Identifier(review) == review.reviewer \o "_" \o review.review_text

\* existing_identifiers: built from the existing reviews, before the new ones
\* are looked at
ExistingIdentifiers(existing) ==
  {Identifier(existing[k]) : k \in 1..Len(existing)}

\* for review in new_reviews: the reviews whose identifier is not among the
\* existing ones are kept, in order; existing_identifiers is not added to
RECURSIVE UniqueNewReviews(_, _, _)
UniqueNewReviews(fetched, i, existing_identifiers) ==
  IF i > Len(fetched) THEN <<>>
  ELSE IF Identifier(fetched[i]) \notin existing_identifiers
    THEN <<fetched[i]>> \o UniqueNewReviews(fetched, i + 1, existing_identifiers)
  ELSE UniqueNewReviews(fetched, i + 1, existing_identifiers)

\* list.sort(key=scraped_at, reverse=True): a stable sort, so reviews of one
\* scraped_at keep their order; `sorted` holds the first reviews, sorted
RECURSIVE SortNewestFirst(_, _)
SortNewestFirst(rows, sorted) ==
  IF rows = <<>> THEN sorted
  ELSE LET x == Head(rows)
           before == SelectSeq(sorted, LAMBDA y : y.scraped_at >= x.scraped_at)
           after == SelectSeq(sorted, LAMBDA y : y.scraped_at < x.scraped_at)
       IN SortNewestFirst(Tail(rows), before \o <<x>> \o after)

\* merge_reviews(existing_reviews, new_reviews)
MergeReviews(existing, fetched) ==
  LET unique_new_reviews == UniqueNewReviews(fetched, 1, ExistingIdentifiers(existing))
      all_reviews == existing \o unique_new_reviews
  IN SortNewestFirst(all_reviews, <<>>)

\* ------------------------------------------------------------------ inputs
\* Review rows, and the lists of them given to merge_reviews
Reviews == {Review(r, "good", at) : r \in {"ann", "bob"}, at \in 1..2}
ReviewLists == UNION {[1..n -> Reviews] : n \in 0..MaxReviews}

\* merge_reviews was not called yet
NoMerge == [done |-> FALSE, all_reviews |-> <<>>]

\* Completions of the Model Backend
RGood == <<"Here", "{", Q, "q01", Q, ":", "5", "}", "Thanks">>
RNoJson == <<"I", "cannot", "answer">>
RBraceInString == <<"{", Q, "a", Q, ":", Q, "}", Q, "}">>
RCollide == <<"{", Q, "persona_name", Q, ":", Q, "Eve", Q, ",", Q, "q01", Q, ":", "3", "}">>

\* Well-formed objects whose string value holds an opening brace, and a pair
\* of braces
ROpenInString == <<"{", Q, "a", Q, ":", Q, "{", Q, "}">>
RPairInString == <<"{", Q, "a", Q, ":", Q, "{", "}", Q, "}">>

\* The completions the backend gives during evaluate calls
Responses == {RGood, RNoJson, RBraceInString, RCollide}

\* What one llm_client.invoke call does: it raises, or returns a completion
BackendOutcomes ==
  {[fails |-> TRUE, text |-> <<>>]} \cup {[fails |-> FALSE, text |-> r] : r \in Responses}

\* Arguments of a direct interact call
DirectInputs ==
  { BareInput(StrMsg("hello")),
    ListInput(<<TextMsg("look"), ImageMsg("img1")>>),
    ListInput(<<ImageMsg("img1"), ImageMsg("img2")>>),
    ListInput(<<TextMsg("listen"), AudioMsg("rec1")>>),
    ListInput(<<VideoMsg("clip"), IntMsg>>),
    ListInput(<<VideoMsg("clip"), StrMsg("hello"), IntMsg>>),
    ListInput(<<>>) }

\* Arguments of set_images
ImageLists == {<<>>, <<"img2", "img1">>}

\* The trials explored on one history before the caller resets it: each
\* appends at most two turns to the system turn
MaxSession == (MaxHist - 1) \div 2

\* Arguments of evaluate
IterationArgs == (0 - MaxBelow)..MaxIter

NoTrial == [index |-> 0, raised |-> "", stage |-> "", interact |-> "", invoked |-> FALSE,
            hook |-> "", received |-> <<>>,
            lenBefore |-> 0, appendedAt |-> 0, lenAfter |-> 0, response |-> <<>>]

NoCall == [called |-> FALSE, before |-> <<>>, input |-> ListInput(<<>>), missing |-> {},
           raised |-> "", invoked |-> FALSE, backendFailed |-> FALSE, sent |-> <<>>,
           sentBefore |-> <<>>, returned |-> <<>>]

\* Texts given to _extract_json on its own: up to MaxLen units, each a brace,
\* a quote or a word
TextUnits == {"{", "}", Q, "x"}
Texts == UNION {[1..n -> TextUnits] : n \in 0..MaxLen}

\* Completions given to _extract_json on its own besides these: well-formed
\* objects with braces in a string value
QuotedBraceTexts == {RBraceInString, ROpenInString, RPairInString}

\* The save_in of a plain evaluate call, which has no such argument
NoArg == "<no argument>"

\* No text was given to _extract_json on its own yet
NoOutcome == [done |-> FALSE, raised |-> "", msg |-> "", json |-> <<>>,
              parsed |-> "", stage |-> "", caught |-> FALSE, records |-> 0]

\* The image paths a message list opens, and those a path list names
PathsIn(ms) == {ms[i].path : i \in {j \in 1..Len(ms) : ms[j].type = "image"}}
Range(paths) == {paths[i] : i \in 1..Len(paths)}

\* ------------------------------------------------------------------ state
\* The files on disk are read by os.path.exists and open only; the set of
\* existing image paths at the time of an operation is an input of its action,
\* drawn from the paths the operation looks at.
VARIABLES
  system_prompt,       \* [Personas -> prompt]: ActivePersona.system_prompt
  message_history,     \* [Personas -> Seq(turn)]: ActivePersona.message_history
  auto_reset,          \* EvaluatorBase.auto_reset
  images_paths,        \* EvaluatorBase.images_paths
  clock,               \* time since the latest evaluate call began; a trial takes one unit
  pc,                  \* [Personas -> "idle" | "loop" | "done" | "raised"]: evaluate
  requested,           \* the iterations argument of the evaluate call
  iterations,          \* local iterations of evaluate, after the clamp
  iteration,           \* loop variable of evaluate: trials started so far
  messages,            \* local messages of evaluate
  entry_template,      \* local entry_template of evaluate
  evaluation_results,  \* local evaluation_results of evaluate; the value returned
  trial,               \* what the latest trial of the evaluate call did
  okTrials,            \* <<index, completion>> of each trial of the call that built an entry
  jsonRun,             \* every trial of the call got a completion holding a JSON object
                       \* from the backend and met no failure of the hook or the merge
  last,                \* what the last direct call on the persona did: an interact
                       \* call (called), or a reset_history call (~called, `before`
                       \* the history it found); sentBefore is the conversation the
                       \* backend received last before the call, since the reset
  used,                \* [Personas -> trials run on the history since its last reset]
  evaluation_prompt,   \* EvaluatorBase.evaluation_prompt
  existed,             \* the image paths that existed when evaluate built its messages
  save_in,             \* the save_in argument of the call; NoArg for a plain evaluate
  written,             \* the files the evaluate_and_save call wrote: <<[path, rows]>>
  raw_text,            \* a text given to _extract_json on its own
  outcome,             \* what _extract_json and the rest of the try block made of it
  existing_reviews,    \* the rows read from the app's CSV file
  new_reviews,         \* the rows fetched from the store
  merged,              \* what merge_reviews returned: [done, all_reviews]
  fed,                 \* [Instances -> the backend outcomes of the trials of the call],
                       \* kept while two personas are evaluated side by side
  disk                 \* the files in the destination directories: {[path, rows, by]},
                       \* `by` the persona whose call wrote the file

vars == <<system_prompt, message_history, auto_reset, images_paths, clock,
          pc, requested, iterations, iteration, messages, entry_template,
          evaluation_results, trial, okTrials, jsonRun, last, used,
          evaluation_prompt, existed, save_in, written, raw_text, outcome,
          existing_reviews, new_reviews, merged, fed, disk>>

frame == <<pc, requested, iterations, iteration, messages, entry_template,
           evaluation_results, trial, okTrials, jsonRun, existed, save_in, written>>
config == <<system_prompt, auto_reset, evaluation_prompt>>
reviews == <<existing_reviews, new_reviews, merged>>
pure == <<raw_text, outcome, reviews>>

\* message_history as an attribute of the class, which every instance shares
StoreShared(histories, p, history) == [q \in DOMAIN histories |-> history]

\* self.message_history = ...: an attribute of the instance p, not of the class
Store(histories, p, history) == [histories EXCEPT ![p] = history]

\* ------------------------------------------------------------------ Init
\* ActivePersona.__init__ (which ends with reset_history) and
\* EvaluatorBase.__init__ have run; no evaluate call was made yet.
InitBase(prompts, resets, instructions, texts) ==
  /\ system_prompt \in [Instances -> prompts]
  /\ message_history = [p \in Instances |-> ResetHistory(system_prompt[p])]
  /\ auto_reset \in resets
  /\ evaluation_prompt \in instructions
  /\ existed = [p \in Instances |-> {}]
  /\ save_in = [p \in Instances |-> NoArg]
  /\ written = [p \in Instances |-> <<>>]
  /\ raw_text \in texts
  /\ outcome = NoOutcome
  /\ fed = [p \in Instances |-> <<>>]
  /\ disk = {}
  /\ images_paths = <<>>
  /\ clock = 0
  /\ pc = [p \in Instances |-> "idle"]
  /\ requested = [p \in Instances |-> 1]
  /\ iterations = [p \in Instances |-> 1]
  /\ iteration = [p \in Instances |-> 0]
  /\ messages = [p \in Instances |-> <<>>]
  /\ entry_template = [p \in Instances |-> EmptyDict]
  /\ evaluation_results = [p \in Instances |-> <<>>]
  /\ trial = [p \in Instances |-> NoTrial]
  /\ okTrials = [p \in Instances |-> <<>>]
  /\ jsonRun = [p \in Instances |-> TRUE]
  /\ last = [p \in Instances |-> NoCall]
  /\ used = [p \in Instances |-> 0]

\* No scraper is in use
InitWith(prompts, resets, instructions, texts) ==
  /\ InitBase(prompts, resets, instructions, texts)
  /\ existing_reviews = <<>>
  /\ new_reviews = <<>>
  /\ merged = NoMerge

Init == InitWith({"You are Ana"}, BOOLEAN, {EvaluationPrompt}, {<<>>})
InitPersona ==
  /\ InitWith(SystemPrompts, BOOLEAN, {EvaluationPrompt}, {<<>>})
  /\ system_prompt["B"] = "You are Ana"
InitSave == InitWith({"You are Ana"}, {TRUE}, EvaluationPrompts, {<<>>})
InitPair ==
  /\ InitWith(SystemPrompts, BOOLEAN, {EvaluationPrompt}, {<<>>})
  /\ system_prompt["A"] = "You are Ana"
InitMerge ==
  /\ InitBase({"You are Ana"}, {TRUE}, {EvaluationPrompt}, {<<>>})
  /\ existing_reviews \in ReviewLists
  /\ new_reviews \in ReviewLists
  /\ merged = NoMerge
InitExtract ==
  InitWith({"You are Ana"}, {TRUE}, {EvaluationPrompt}, Texts \cup QuotedBraceTexts)

\* ------------------------------------------------------------------ caller's operations
\* evaluator.set_images(paths), called between evaluate calls
SetImages(paths) ==
  /\ \A p \in Personas : pc[p] = "idle"
  /\ images_paths' = paths
  /\ UNCHANGED <<config, message_history, clock, frame, last, used, pure, fed, disk>>

\* persona.reset_history() called by the caller; the caller is done with what
\* the last evaluate returned
ResetCall(p) ==
  /\ pc[p] # "loop"
  /\ message_history' = Store(message_history, p, ResetHistory(system_prompt[p]))
  /\ pc' = [pc EXCEPT ![p] = "idle"]
  /\ last' = [last EXCEPT ![p] = [NoCall EXCEPT !.before = message_history[p]]]
  /\ requested' = [requested EXCEPT ![p] = 1]
  /\ iterations' = [iterations EXCEPT ![p] = 1]
  /\ iteration' = [iteration EXCEPT ![p] = 0]
  /\ messages' = [messages EXCEPT ![p] = <<>>]
  /\ entry_template' = [entry_template EXCEPT ![p] = EmptyDict]
  /\ evaluation_results' = [evaluation_results EXCEPT ![p] = <<>>]
  /\ trial' = [trial EXCEPT ![p] = NoTrial]
  /\ okTrials' = [okTrials EXCEPT ![p] = <<>>]
  /\ jsonRun' = [jsonRun EXCEPT ![p] = TRUE]
  /\ used' = [used EXCEPT ![p] = 0]
  /\ existed' = [existed EXCEPT ![p] = {}]
  /\ save_in' = [save_in EXCEPT ![p] = NoArg]
  /\ written' = [written EXCEPT ![p] = <<>>]
  /\ fed' = [fed EXCEPT ![p] = <<>>]
  /\ UNCHANGED <<config, images_paths, clock, pure, disk>>

\* persona.interact(input) called by the caller while the image paths in
\* `files` exist; the backend answers `be`
InteractCall(p, input, files, be) ==
  /\ pc[p] # "loop"
  /\ Len(message_history[p]) + 2 <= 1 + 2 * MaxCalls
  /\ LET ir == InteractResult(message_history[p], input, files, be) IN
       /\ message_history' = Store(message_history, p, ir.history)
       /\ last' = [last EXCEPT ![p] =
                     [called |-> TRUE, before |-> message_history[p], input |-> input,
                      missing |-> PathsIn(AsList(input)) \ files,
                      raised |-> ir.raised, invoked |-> ir.invoked,
                      backendFailed |-> ir.invoked /\ be.fails, sent |-> ir.sent,
                      sentBefore |-> IF last[p].invoked THEN last[p].sent
                                     ELSE last[p].sentBefore,
                      returned |-> ir.response]]
  /\ pc' = [pc EXCEPT ![p] = "idle"]
  /\ UNCHANGED <<config, images_paths, clock, requested, iterations, iteration,
                 messages, entry_template, evaluation_results, trial, okTrials, jsonRun, used,
                 existed, save_in, written, pure, fed, disk>>

\* ------------------------------------------------------------------ evaluate
\* evaluate(active_persona, n) up to the for statement, while the image paths
\* in `files` exist: the clamp, the messages, the empty result list and the
\* entry template. dest is NoArg when the caller called evaluate, and the
\* save_in argument when evaluate was called by evaluate_and_save.
EvaluateEnter(p, n, files, dest) ==
  /\ pc[p] # "loop"
  /\ auto_reset \/ used[p] + ClampIterations(n) <= MaxSession
  /\ requested' = [requested EXCEPT ![p] = n]
  /\ iterations' = [iterations EXCEPT ![p] = ClampIterations(n)]
  /\ messages' = [messages EXCEPT ![p] =
                    PrepareEvaluationMessages(evaluation_prompt, images_paths, files)]
  /\ existed' = [existed EXCEPT ![p] = files]
  /\ save_in' = [save_in EXCEPT ![p] = dest]
  /\ written' = [written EXCEPT ![p] = <<>>]
  /\ evaluation_results' = [evaluation_results EXCEPT ![p] = <<>>]
  /\ entry_template' = [entry_template EXCEPT ![p] = EntryTemplate(p, 0)]
  /\ iteration' = [iteration EXCEPT ![p] = 0]
  /\ trial' = [trial EXCEPT ![p] = NoTrial]
  /\ okTrials' = [okTrials EXCEPT ![p] = <<>>]
  /\ jsonRun' = [jsonRun EXCEPT ![p] = TRUE]
  /\ last' = [last EXCEPT ![p] = NoCall]
  /\ pc' = [pc EXCEPT ![p] = "loop"]
  /\ clock' = 0
  /\ fed' = [fed EXCEPT ![p] = <<>>]
  /\ UNCHANGED <<config, message_history, images_paths, used, pure, disk>>

\* evaluator.evaluate(persona, n) called by the caller
EvaluateBegin(p, n, files) == EvaluateEnter(p, n, files, NoArg)

\* evaluator.evaluate_and_save(persona, n, dest) called by the caller
EvaluateAndSaveBegin(p, n, files, dest) ==
  /\ dest # NoArg
  /\ EvaluateEnter(p, n, files, dest)

\* One iteration of the for loop: the try block and its except handler, while
\* the image paths in `files` exist. The backend answers `be`; the hook of the
\* evaluator class behaves as `hook`.
TrialBody(p, files, be, hook) ==
  /\ pc[p] = "loop"
  /\ iteration[p] + 1 <= iterations[p]
  /\ LET h0 == TrialStartHistory(auto_reset, system_prompt[p], message_history[p])
         ir == InteractResult(h0, ListInput(messages[p]), files, be)
         built == BuildEntry(ir, hook, entry_template[p])
     IN /\ message_history' = Store(message_history, p, ir.history)
        /\ evaluation_results' =
             [evaluation_results EXCEPT ![p] = ResultsAfterTrial(@, built)]
        /\ trial' = [trial EXCEPT ![p] =
             [index |-> iteration[p] + 1, raised |-> built.raised, stage |-> built.stage,
              interact |-> ir.raised, invoked |-> ir.invoked,
              hook |-> IF built.stage \in {"hook", "merge", "append"} THEN hook ELSE "",
              received |-> messages[p],
              lenBefore |-> Len(message_history[p]), appendedAt |-> ir.appendedAt,
              lenAfter |-> Len(ir.history), response |-> ir.response]]
        /\ okTrials' = [okTrials EXCEPT ![p] =
             IF built.raised = "" THEN Append(@, <<iteration[p] + 1, ir.response>>) ELSE @]
        /\ jsonRun' = [jsonRun EXCEPT ![p] =
             /\ @
             /\ ir.invoked /\ ~be.fails /\ HoldsJsonObject(be.text)
             /\ built.stage \notin {"hook", "merge"}]
        /\ entry_template' = [entry_template EXCEPT ![p] = TemplateAfterTrial(@, built)]
        /\ pc' = [pc EXCEPT ![p] =
                    IF built.raised # "" /\ ~Caught(built.raised) THEN "raised" ELSE "loop"]
  /\ iteration' = [iteration EXCEPT ![p] = @ + 1]
  /\ clock' = clock + 1
  /\ used' = [used EXCEPT ![p] = IF auto_reset THEN 1 ELSE @ + 1]
  /\ UNCHANGED <<config, images_paths, requested, iterations, messages,
                 last, existed, save_in, written, pure, disk>>

Trial(p, files, be, hook) ==
  /\ TrialBody(p, files, be, hook)
  /\ UNCHANGED fed

\* One iteration, for every state of the disk, backend answer and hook
TrialStep(p) ==
  \E files \in SUBSET PathsIn(messages[p]), be \in BackendOutcomes, hook \in HookKinds :
    Trial(p, files, be, hook)

\* The for loop is exhausted: return evaluation_results
EvaluateReturn(p) ==
  /\ pc[p] = "loop"
  /\ save_in[p] = NoArg
  /\ iteration[p] + 1 > iterations[p]
  /\ pc' = [pc EXCEPT ![p] = "done"]
  /\ UNCHANGED <<config, message_history, images_paths, clock, requested,
                 iterations, iteration, messages, entry_template, evaluation_results,
                 trial, okTrials, jsonRun, last, used, existed, save_in, written, pure,
                 fed, disk>>

\* The loop of an evaluate_and_save call is exhausted: evaluate returns, and
\* evaluate_and_save returns the records at once when save_in is None, and after
\* writing them to csv_path otherwise; to_csv raises OSError when the
\* directory save_in does not exist, and replaces a file that is there.
SaveReturn(p, dirExists) ==
  /\ pc[p] = "loop"
  /\ save_in[p] # NoArg
  /\ iteration[p] + 1 > iterations[p]
  /\ IF save_in[p] = NoneValue
       THEN /\ pc' = [pc EXCEPT ![p] = "done"]
            /\ UNCHANGED <<written, disk>>
     ELSE IF dirExists
       THEN LET csv_path == CsvPath(save_in[p], SavedName(p), EvaluatorClass) IN
            /\ pc' = [pc EXCEPT ![p] = "done"]
            /\ written' = [written EXCEPT ![p] =
                 <<[path |-> csv_path, rows |-> CsvRows(evaluation_results[p])]>>]
            /\ disk' = {f \in disk : f.path # csv_path}
                         \cup {[path |-> csv_path, rows |-> CsvRows(evaluation_results[p]),
                                by |-> p]}
     ELSE /\ pc' = [pc EXCEPT ![p] = "raised"]
          /\ UNCHANGED <<written, disk>>
  /\ UNCHANGED <<config, message_history, images_paths, clock, requested,
                 iterations, iteration, messages, entry_template, evaluation_results,
                 trial, okTrials, jsonRun, last, used, existed, save_in, pure, fed>>

\* Destinations given to evaluate_and_save
Destinations == {NoneValue, "out"}

\* The evaluator without images, used through evaluate and evaluate_and_save
NextSave ==
  \/ \E p \in Personas : ResetCall(p)
  \/ \E p \in Personas, n \in IterationArgs : EvaluateBegin(p, n, {})
  \/ \E p \in Personas, n \in IterationArgs, dest \in Destinations :
       EvaluateAndSaveBegin(p, n, {}, dest)
  \/ \E p \in Personas : TrialStep(p)
  \/ \E p \in Personas : EvaluateReturn(p)
  \/ \E p \in Personas, dirExists \in BOOLEAN : SaveReturn(p, dirExists)

SpecSave == InitSave /\ [][NextSave]_vars

\* ------------------------------------------------------------------ two personas
\* Two persona instances used with one evaluator, their calls interleaved trial
\* by trial. Completions and inputs are fewer than for one persona, and the
\* destination directory exists (the driver creates it before it evaluates).
PairOutcomes == {[fails |-> TRUE, text |-> <<>>], [fails |-> FALSE, text |-> RGood]}
PairInputs == {BareInput(StrMsg("hello")), ListInput(<<>>)}

\* evaluate_and_save, and evaluate in it, called on a persona the caller has
\* just reset
PairBegin(p, n, dest) ==
  /\ pc[p] = "idle"
  /\ message_history[p] = ResetHistory(system_prompt[p])
  /\ EvaluateAndSaveBegin(p, n, {}, dest)

\* interact called on a persona the caller has just reset
PairInteract(p, input, be) ==
  /\ pc[p] = "idle"
  /\ message_history[p] = ResetHistory(system_prompt[p])
  /\ InteractCall(p, input, {}, be)

\* One iteration of the loop of p's call; the backend outcome is recorded
PairTrial(p, be) ==
  /\ TrialBody(p, {}, be, "identity")
  /\ fed' = [fed EXCEPT ![p] = Append(@, be)]

NextPair ==
  \/ \E p \in Instances : ResetCall(p)
  \/ \E p \in Instances, input \in PairInputs, be \in PairOutcomes :
       PairInteract(p, input, be)
  \/ \E p \in Instances, n \in 1..MaxPair : PairBegin(p, n, "out")
  \/ \E p \in Instances, be \in PairOutcomes : PairTrial(p, be)
  \/ \E p \in Instances : SaveReturn(p, TRUE)

SpecPair == InitPair /\ [][NextPair]_vars

\* The evaluation engine: the caller configures the images, resets the persona
\* and runs evaluate calls one after the other.
Next ==
  \/ \E paths \in ImageLists : SetImages(paths)
  \/ \E p \in Personas : ResetCall(p)
  \/ \E p \in Personas, n \in IterationArgs, files \in SUBSET Range(images_paths) :
       EvaluateBegin(p, n, files)
  \/ \E p \in Personas : TrialStep(p)
  \/ \E p \in Personas : EvaluateReturn(p)

Spec == Init /\ [][Next]_vars

\* ------------------------------------------------------------------ _extract_json alone
\* self._extract_json(raw_text) followed by the rest of the try block of an
\* iteration whose interact call returned raw_text, for persona p
ExtractCall(p) ==
  /\ ~outcome.done
  /\ LET ex == ExtractJson(raw_text)
         built == BuildEntry([raised |-> "", response |-> raw_text], "identity",
                             EntryTemplate(p, 0))
     IN outcome' =
          [done |-> TRUE, raised |-> ex.raised, msg |-> ex.msg, json |-> ex.json,
           parsed |-> IF ex.raised # "" THEN ""
                      ELSE IF JsonLoads(ex.json).raised = "" THEN "ok"
                      ELSE JsonLoads(ex.json).raised,
           stage |-> built.stage,
           caught |-> built.raised # "" /\ Caught(built.raised),
           records |-> Len(ResultsAfterTrial(<<>>, built))]
  /\ UNCHANGED <<config, message_history, images_paths, clock, frame, last, used, raw_text,
                 reviews, fed, disk>>

NextExtract == \E p \in Personas : ExtractCall(p)

SpecExtract == InitExtract /\ [][NextExtract]_vars

\* ------------------------------------------------------------------ merge_reviews alone
\* all_reviews = self.merge_reviews(existing_reviews, new_reviews)
MergeCall ==
  /\ ~merged.done
  /\ merged' = [done |-> TRUE, all_reviews |-> MergeReviews(existing_reviews, new_reviews)]
  /\ UNCHANGED <<config, message_history, images_paths, clock, frame, last, used,
                 raw_text, outcome, existing_reviews, new_reviews, fed, disk>>

NextMerge == MergeCall

SpecMerge == InitMerge /\ [][NextMerge]_vars

\* What the backend does in a direct interact call: it raises, or returns a
\* completion with or without JSON, which interact does not look into
DirectOutcomes ==
  {[fails |-> TRUE, text |-> <<>>]} \cup {[fails |-> FALSE, text |-> r] : r \in {RGood, RNoJson}}

\* The persona alone: the caller resets it and interacts with it directly.
NextPersona ==
  \/ \E p \in Personas : ResetCall(p)
  \/ \E p \in Personas, input \in DirectInputs :
       \E files \in SUBSET PathsIn(AsList(input)), be \in DirectOutcomes :
         InteractCall(p, input, files, be)

SpecPersona == InitPersona /\ [][NextPersona]_vars

\* ================================================================== claims
\* The entry evaluate builds from completion `response` with the identity hook
EntryOf(response, template) ==
  JsonLoads(ExtractJson(response).json).value @@ template

\* Trial record t is of a trial in which interact, extraction, parsing, hook
\* and merge all succeeded
TrialSucceeded(t) ==
  /\ t.index > 0
  /\ t.interact = ""
  /\ ExtractJson(t.response).raised = ""
  /\ JsonLoads(ExtractJson(t.response).json).raised = ""
  /\ t.hook = "identity"

\* C1: a failure raised inside one trial of evaluate (backend failure, missing
\* image, JSON extraction, JSON parsing, hook, merge) never escapes evaluate and
\* never stops the loop: while trials remain the next trial can run, and
\* evaluate returns only after all `iterations` trials were executed.
C1_FailureContained ==
  \A p \in Personas :
    /\ pc[p] # "raised"
    /\ pc[p] = "done" => iteration[p] = iterations[p]
    /\ (pc[p] = "loop" /\ iteration[p] < iterations[p]) => ENABLED TrialStep(p)
    /\ (pc[p] = "loop" /\ iteration[p] >= iterations[p]) => ENABLED EvaluateReturn(p)

\* evaluate returned after three trials of which the first two failed
C1_Witness ==
  /\ pc["A"] = "done"
  /\ iteration["A"] = 3
  /\ Len(okTrials["A"]) = 1
  /\ okTrials["A"][1][1] = 3

\* C2: evaluate holds exactly one record per trial in which interact,
\* extraction, parsing, hook and merge all succeeded, in trial order, and none
\* for any other trial; no trial is retried: each trial is one interact call,
\* and a returned evaluate has run max(1, iterations) of them.
C2_OneRecordPerSuccess ==
  \A p \in Personas :
    /\ Len(evaluation_results[p]) = Len(okTrials[p])
    /\ \A k \in 1..Len(okTrials[p]) :
         /\ evaluation_results[p][k] = EntryOf(okTrials[p][k][2], entry_template[p])
         /\ k > 1 => okTrials[p][k - 1][1] < okTrials[p][k][1]
    /\ trial[p].index = iteration[p]
    /\ trial[p].index > 0 =>
         (TrialSucceeded(trial[p])
            <=> /\ okTrials[p] # <<>>
                /\ okTrials[p][Len(okTrials[p])] = <<trial[p].index, trial[p].response>>)
    /\ pc[p] = "done" =>
         iteration[p] = (IF requested[p] >= 1 THEN requested[p] ELSE 1)

\* trial 2 of 3 failed JSON parsing, trials 1 and 3 succeeded: 2 records
\* (without auto-reset the history holds the completion of every trial)
C2_Witness ==
  /\ pc["A"] = "done"
  /\ requested["A"] = 3
  /\ ~auto_reset
  /\ Len(message_history["A"]) = 7
  /\ message_history["A"][5].reply = RBraceInString
  /\ Len(evaluation_results["A"]) = 2
  /\ okTrials["A"][1][1] = 1
  /\ okTrials["A"][2][1] = 3

\* C3: for iterations >= 1 the sequence returned by evaluate has length between
\* 0 and iterations, and at every point of the loop the number of collected
\* records is at most the number of trials started so far.
C3_LengthBounded ==
  \A p \in Personas :
    /\ Len(evaluation_results[p]) <= iteration[p]
    /\ iteration[p] <= iterations[p]
    /\ (pc[p] = "done" /\ requested[p] >= 1) =>
         Len(evaluation_results[p]) \in 0..requested[p]

\* a returned evaluate(3) in which every trial failed
C3_Witness ==
  /\ pc["A"] = "done"
  /\ requested["A"] = 3
  /\ Len(evaluation_results["A"]) = 0

\* C4: for iterations >= 1, when the backend returns a text holding one
\* parseable JSON object on every invocation (every trial reaching the backend,
\* the hook and the merge not failing), evaluate returns exactly iterations
\* records.
C4_AllRecordsOnJson ==
  \A p \in Personas :
    (pc[p] = "done" /\ requested[p] >= 1 /\ jsonRun[p]) =>
      Len(evaluation_results[p]) = requested[p]

\* C5: for an iterations argument below 1 evaluate runs as with iterations = 1:
\* the loop bound is 1, no error is raised, exactly one trial runs, and the
\* history and the returned sequence are those of that one trial.
C5_BelowOneIsOne ==
  \A p \in Personas :
    requested[p] < 1 =>
      /\ iterations[p] = 1
      /\ pc[p] # "raised"
      /\ pc[p] = "done" =>
           /\ iteration[p] = 1
           /\ trial[p].index = 1
           /\ Len(message_history[p]) = trial[p].lenAfter
           /\ Len(evaluation_results[p]) = (IF TrialSucceeded(trial[p]) THEN 1 ELSE 0)

\* evaluate returned from a call with a negative iterations argument
C5_Witness ==
  /\ pc["A"] = "done"
  /\ requested["A"] < 0
  /\ iteration["A"] = 1
  /\ Len(evaluation_results["A"]) = 1

\* C6: with auto_reset enabled, in every trial the history holds exactly the
\* system turn at the moment the user turn of the trial is appended.
C6_FreshAtAppend ==
  \A p \in Personas :
    (auto_reset /\ trial[p].index > 0 /\ trial[p].appendedAt > 0) =>
      trial[p].appendedAt = 1

\* auto_reset: a later trial of a call appended its user turn to a fresh
\* history although the trial before left two turns (its backend call failed)
C6_Witness ==
  /\ auto_reset
  /\ trial["A"].index >= 2
  /\ trial["A"].lenBefore = 2
  /\ trial["A"].appendedAt = 1

\* C7 as stated: with auto_reset disabled the history length grows by 2 in
\* every trial.
C7_GrowsByTwoEveryTrial ==
  \A p \in Personas :
    (~auto_reset /\ trial[p].index > 0) =>
      trial[p].lenAfter = trial[p].lenBefore + 2

\* C7 amended: with auto_reset disabled the history length grows by 2 in every
\* trial whose interact call returned (whatever becomes of its completion), by
\* 1 when the backend call failed, and by 0 when normalisation failed.
C7_GrowthPerTrial ==
  \A p \in Personas :
    (~auto_reset /\ trial[p].index > 0) =>
      trial[p].lenAfter = trial[p].lenBefore +
        (IF trial[p].interact = "" THEN 2
         ELSE IF trial[p].interact = "BackendError" THEN 1
         ELSE 0)

\* without auto_reset: the third trial took the history from 5 to 7 turns and
\* its completion did not parse
C7_Witness ==
  /\ ~auto_reset
  /\ trial["A"].index = 3
  /\ trial["A"].lenBefore = 5
  /\ trial["A"].lenAfter = 7
  /\ trial["A"].stage = "parse"

\* ---- the persona alone (SpecPersona)
\* The normalisation loop reaches an image message whose file is missing: no
\* audio message stands before the first such image
ReachesMissingImage(ms, missing) ==
  \E i \in 1..Len(ms) :
    /\ ms[i].kind = "dict" /\ ms[i].type = "image" /\ ms[i].path \in missing
    /\ \A j \in 1..(i - 1) : ~(ms[j].kind = "dict" /\ ms[j].type = "audio")

\* The parts the direct call recorded in c stores in its user turn
StoredParts(c) ==
  Normalize(AsList(c.input), 1, <<>>, PathsIn(AsList(c.input)) \ c.missing).processed

\* C8: when interact meets an image part naming a missing file, at any position
\* of the part list, the call fails with FileNotFoundError, the history is
\* exactly what it was before the call (from a fresh persona: the system turn
\* alone) and the backend is not invoked.
C8_MissingImageNoChange ==
  \A p \in Personas :
    (last[p].called /\ ReachesMissingImage(AsList(last[p].input), last[p].missing)) =>
      /\ last[p].raised = "FileNotFoundError"
      /\ message_history[p] = last[p].before
      /\ ~last[p].invoked
      /\ last[p].sent = <<>>
      /\ Len(last[p].before) = 1 =>
           message_history[p] = <<SystemTurn(system_prompt[p])>>

\* the second of two image parts is missing, the first was already normalised,
\* and the persona held a conversation before the call
C8_Witness ==
  /\ last["A"].called
  /\ last["A"].input = ListInput(<<ImageMsg("img1"), ImageMsg("img2")>>)
  /\ last["A"].missing = {"img2"}
  /\ Len(last["A"].before) = 3
  /\ last["A"].raised = "FileNotFoundError"

\* C9: when the backend call inside interact fails, the failure reaches the
\* caller (nothing is returned), the history has gained exactly the new user
\* turn and no assistant turn, and every conversation sent to the backend is
\* the whole history before the call followed by the new user turn, so a
\* following interact sends the unanswered user turn again.
C9_BackendFailureKeepsUserTurn ==
  \A p \in Personas :
    last[p].called =>
      /\ last[p].backendFailed =>
           /\ last[p].raised = "BackendError"
           /\ last[p].returned = <<>>
           /\ message_history[p] = Append(last[p].before, UserTurn(StoredParts(last[p])))
      /\ last[p].invoked =>
           last[p].sent = Append(last[p].before, UserTurn(StoredParts(last[p])))

\* an interact call that follows a failed backend call without a reset: the
\* conversation it sent holds the unanswered user turn
C9_Witness ==
  /\ last["A"].called
  /\ last["A"].invoked
  /\ Len(last["A"].before) = 2
  /\ last["A"].before[2].role = "user"
  /\ Len(last["A"].sent) = 3
  /\ last["A"].sent[2] = last["A"].before[2]

\* C10: a successful interact call appends exactly two turns, first the user
\* turn holding all normalised parts, then the assistant turn holding the raw
\* completion; the earlier turns are unchanged and the value returned is the
\* content of the appended assistant turn.
C10_TwoAppends ==
  \A p \in Personas :
    (last[p].called /\ last[p].raised = "") =>
      /\ Len(message_history[p]) = Len(last[p].before) + 2
      /\ SubSeq(message_history[p], 1, Len(last[p].before)) = last[p].before
      /\ message_history[p][Len(last[p].before) + 1] = UserTurn(StoredParts(last[p]))
      /\ message_history[p][Len(last[p].before) + 2].role = "assistant"
      /\ message_history[p][Len(last[p].before) + 2].reply = last[p].returned
      /\ last[p].returned \in Responses

\* a successful call with a text part and an image part on a history of three
\* turns
C10_Witness ==
  /\ last["A"].called
  /\ last["A"].raised = ""
  /\ Len(last["A"].before) = 3
  /\ last["A"].input = ListInput(<<TextMsg("look"), ImageMsg("img1")>>)
  /\ Len(message_history["A"]) = 5
  /\ Len(message_history["A"][4].parts) = 2
  /\ message_history["A"][5].reply = RGood

\* C11: in every reachable state of a persona (after construction, after any
\* sequence of reset and interact calls, successful or failed) the history is
\* non-empty and turn 0 is the system turn holding the stored system prompt,
\* None included.
C11_SystemTurnFirst ==
  \A p \in Personas :
    /\ Len(message_history[p]) >= 1
    /\ message_history[p][1] = SystemTurn(system_prompt[p])
    /\ \A k \in 2..Len(message_history[p]) : message_history[p][k].role # "system"

\* a persona built without a system prompt, after a failed backend call and a
\* successful call
C11_Witness ==
  /\ system_prompt["A"] = NoneValue
  /\ last["A"].called
  /\ Len(message_history["A"]) = 4
  /\ message_history["A"][2].role = "user"
  /\ message_history["A"][3].role = "user"
  /\ message_history["A"][1].sys = NoneValue

\* C12: reset_history can be called in every state and always leaves exactly
\* one turn, the system turn holding the stored system prompt; resetting the
\* result again gives the same history; the system prompt (and with it the
\* persona, whose name and backend are fixed at construction) is unchanged.
C12_ResetLeavesSystemTurn ==
  /\ [](\A p \in Personas : ENABLED ResetCall(p))
  /\ [][\A p \in Personas :
          ResetCall(p) =>
            /\ message_history'[p] = <<SystemTurn(system_prompt[p])>>
            /\ ResetHistory(system_prompt'[p]) = message_history'[p]
            /\ system_prompt' = system_prompt]_vars

\* reset_history was called on a history of five turns and left the system turn
C12_Witness ==
  /\ ~last["A"].called
  /\ Len(last["A"].before) = 5
  /\ message_history["A"] = <<SystemTurn(system_prompt["A"])>>

\* C13: every backend invocation made by interact receives the whole history
\* before the call followed by the new user turn as last element; without a
\* reset, the conversation sent extends the conversation sent the time before.
C13_FullConversationSent ==
  \A p \in Personas :
    (last[p].called /\ last[p].invoked) =>
      /\ Len(last[p].sent) = Len(last[p].before) + 1
      /\ SubSeq(last[p].sent, 1, Len(last[p].before)) = last[p].before
      /\ last[p].sent[Len(last[p].sent)].role = "user"
      /\ last[p].sent[1] = SystemTurn(system_prompt[p])
      /\ last[p].sentBefore # <<>> =>
           /\ Len(last[p].sent) > Len(last[p].sentBefore)
           /\ SubSeq(last[p].sent, 1, Len(last[p].sentBefore)) = last[p].sentBefore

\* the second invocation since the reset: it received the two turns sent the
\* time before, the completion recorded since, and the new user turn
C13_Witness ==
  /\ last["A"].called
  /\ last["A"].invoked
  /\ Len(last["A"].sentBefore) = 2
  /\ Len(last["A"].sent) = 4
  /\ last["A"].sent[3].role = "assistant"

\* ---- the merged record
\* The keys of the base record that identify the call: time, persona, model
BaseKeys == {<<"timestamp">>, <<"persona_name">>, <<"model">>}

\* The object evaluate parsed from completion `response`
ParsedObject(response) == JsonLoads(ExtractJson(response).json).value

\* C14: in every record held by evaluate, a key of the parsed object that is
\* not a key of the base record carries the object's value, and the keys
\* timestamp, persona_name and model carry the base record's values even when
\* the parsed object has keys with those names.
C14_BaseKeysKept ==
  \A p \in Personas :
    \A k \in 1..Len(evaluation_results[p]) :
      LET obj == ParsedObject(okTrials[p][k][2])
          rec == evaluation_results[p][k]
      IN /\ \A key \in (DOMAIN obj) \ BaseKeys : rec[key] = obj[key]
         /\ \A key \in BaseKeys : rec[key] = entry_template[p][key]

\* ---- extraction on its own (SpecExtract)
HasBrace(t) == \E k \in 1..Len(t) : t[k] = "{"

\* The depth counter after unit j of a scan of t that starts at unit f:
\* incremented on an opening brace, decremented on a closing one
Depth(t, f, j) ==
  Cardinality({k \in f..j : t[k] = "{"}) - Cardinality({k \in f..j : t[k] = "}"})

\* The first closing brace at which the counter is back at zero, 0 for none
ClosingBrace(t, f) ==
  LET zero == {j \in f..Len(t) : t[j] = "}" /\ Depth(t, f, j) = 0} IN
  IF zero = {} THEN 0 ELSE CHOOSE j \in zero : \A k \in zero : j <= k

\* C15 as stated: for every text holding an opening brace, extraction returns
\* the stretch from the first opening brace to the first closing brace at which
\* the depth counter returns to zero.
C15_ExtractsToDepthZero ==
  (outcome.done /\ HasBrace(raw_text)) =>
    LET f == FirstBrace(raw_text, 1) IN
    /\ ClosingBrace(raw_text, f) # 0
    /\ outcome.raised = ""
    /\ outcome.json = SubSeq(raw_text, f, ClosingBrace(raw_text, f))

\* C15 amended: for every text holding an opening brace, when the depth counter
\* returns to zero at some closing brace, extraction returns the stretch from
\* the first opening brace to the first such closing brace (prose before and
\* after dropped, a nested object whole); when it never returns to zero,
\* extraction fails with ValueError "Could not extract complete JSON object".
C15_ExtractsWhenClosed ==
  (outcome.done /\ HasBrace(raw_text)) =>
    LET f == FirstBrace(raw_text, 1) IN
    IF ClosingBrace(raw_text, f) # 0
      THEN /\ outcome.raised = ""
           /\ outcome.json = SubSeq(raw_text, f, ClosingBrace(raw_text, f))
      ELSE /\ outcome.raised = "ValueError"
           /\ outcome.msg = "Could not extract complete JSON object"

\* a nested object between two words: the outer object is returned whole
C15_Witness ==
  /\ outcome.done
  /\ raw_text = <<"x", "{", "{", "}", "}", "x">>
  /\ outcome.json = <<"{", "{", "}", "}">>

\* C16: for every text without an opening brace extraction fails with
\* ValueError "No JSON object found in text"; a candidate that is found but
\* does not parse fails with JSONDecodeError, which differs from it; in both
\* cases the handler of the loop catches the failure and no record is appended.
C16_NoJsonAndMalformed ==
  outcome.done =>
    /\ ~HasBrace(raw_text) =>
         /\ outcome.raised = "ValueError"
         /\ outcome.msg = "No JSON object found in text"
         /\ outcome.stage = "extract"
         /\ outcome.caught
         /\ outcome.records = 0
    /\ (outcome.raised = "" /\ outcome.parsed # "ok") =>
         /\ outcome.parsed = "JSONDecodeError"
         /\ outcome.parsed # "ValueError"
         /\ outcome.stage = "parse"
         /\ outcome.caught
         /\ outcome.records = 0

\* a candidate found after a word and not parseable
C16_Witness ==
  /\ outcome.done
  /\ raw_text = <<"x", "{", "x", "}">>
  /\ outcome.json = <<"{", "x", "}">>
  /\ outcome.parsed = "JSONDecodeError"

\* ---- the prompt parts of an evaluate call (Spec)
\* The configured image paths that existed when the call built its messages,
\* in configured order
ExistingConfigured(p) == SelectSeq(images_paths, LAMBDA path : path \in existed[p])

\* C17: within one evaluate call the prompt parts are built once, before the
\* first trial, and the interact call of every trial receives that same list:
\* the instruction text first, then one image message per configured path that
\* existed at build time, in configured order; a configured path that did not
\* exist is dropped and does not fail the call.
C17_PartsBuiltOnce ==
  \A p \in Personas :
    pc[p] # "idle" =>
      /\ Len(messages[p]) = 1 + Len(ExistingConfigured(p))
      /\ messages[p][1] = TextMsg(evaluation_prompt)
      /\ \A k \in 1..Len(ExistingConfigured(p)) :
           messages[p][k + 1] = ImageMsg(ExistingConfigured(p)[k])
      /\ trial[p].index > 0 => trial[p].received = messages[p]
      /\ pc[p] # "raised"

\* the second trial of a call made while one of the two configured images was
\* missing: it received the text and the other image
C17_Witness ==
  /\ images_paths = <<"img2", "img1">>
  /\ existed["A"] = {"img1"}
  /\ trial["A"].index = 2
  /\ trial["A"].received = <<TextMsg(EvaluationPrompt), ImageMsg("img1")>>
  /\ trial["A"].invoked

\* ---- the evaluator without images (SpecSave)
\* C18 as stated: with an empty instruction text evaluate fails as a whole
\* before any trial runs: no trial is started, the backend is not invoked and
\* no record sequence is returned.
C18_EmptyPromptAborts ==
  \A p \in Personas :
    (pc[p] # "idle" /\ evaluation_prompt = "") =>
      /\ iteration[p] = 0
      /\ trial[p].index = 0
      /\ pc[p] # "done"

KnownPaths ==
  UNION {{AsList(input)[i].path : i \in 1..Len(AsList(input))} : input \in DirectInputs}
    \ {""}
InlineImages ==
  {"data:image/jpeg;base64," \o B64Encode(FileBytes(path)) : path \in KnownPaths}

\* C20: in every reachable history no stored part carries a filesystem path:
\* every part of every user turn is a text part or an inline-encoded image, so
\* the turns a later backend invocation sends are the stored ones, whatever
\* has become of the files.
C20_NoPathStored ==
  \A p \in Personas :
    /\ \A k \in 1..Len(message_history[p]) :
         \A j \in 1..Len(message_history[p][k].parts) :
           LET part == message_history[p][k].parts[j] IN
           /\ part.type \in {"text", "image_url"}
           /\ part.type = "text" => (part.url = "" /\ part.text \notin KnownPaths)
           /\ part.type = "image_url" =>
                (part.url \in InlineImages /\ part.url \notin KnownPaths)
    /\ (last[p].called /\ last[p].invoked) =>
         \A k \in 1..Len(last[p].before) : last[p].sent[k] = last[p].before[k]

\* a call made after a turn with an inline image was stored: the image part
\* was sent again as stored
C20_Witness ==
  /\ last["A"].called
  /\ last["A"].invoked
  /\ last["A"].input = BareInput(StrMsg("hello"))
  /\ Len(last["A"].before) = 3
  /\ Len(last["A"].before[2].parts) = 2
  /\ last["A"].before[2].parts[2].type = "image_url"
  /\ last["A"].sent[2] = last["A"].before[2]

\* ---- audio messages (SpecPersona)
\* WhisperTranscriber.transcribe(audio_path): the text of the recording
Transcribe(audio_path) == "transcript(" \o audio_path \o ")"

\* The normalisation loop reaches an audio message: no image message with a
\* missing file stands before the first one
ReachesAudio(ms, missing) ==
  \E i \in 1..Len(ms) :
    /\ ms[i].kind = "dict" /\ ms[i].type = "audio"
    /\ \A j \in 1..(i - 1) :
         ~(ms[j].kind = "dict" /\ ms[j].type = "image" /\ ms[j].path \in missing)

\* C21 as stated: when interact reaches an audio message, either the
\* transcriber is called with its path and the user turn stores a text part
\* holding the transcription, or the call fails with the failure the
\* transcriber raised, nothing is appended and the backend is not invoked.
C21_AudioTranscribed ==
  \A p \in Personas :
    (last[p].called /\ ReachesAudio(AsList(last[p].input), last[p].missing)) =>
      \/ /\ last[p].raised \in {"", "BackendError"}
         /\ \E j \in 1..Len(message_history[p][Len(last[p].before) + 1].parts) :
              message_history[p][Len(last[p].before) + 1].parts[j]
                \in {TextPart(Transcribe(m.path)) :
                       m \in {AsList(last[p].input)[i] : i \in 1..Len(AsList(last[p].input))}}
      \/ /\ last[p].raised = "TranscriptionFailure"
         /\ message_history[p] = last[p].before
         /\ ~last[p].invoked

\* What p's evaluate call makes of the backend outcomes `outcomes` when nothing
\* else runs: the history it leaves and the records it returns
RECURSIVE RunAlone(_, _)
RunAlone(p, outcomes) ==
  IF outcomes = <<>>
    THEN [history |-> ResetHistory(system_prompt[p]), results |-> <<>>]
  ELSE LET n == Len(outcomes)
           prev == RunAlone(p, SubSeq(outcomes, 1, n - 1))
           h0 == TrialStartHistory(auto_reset, system_prompt[p], prev.history)
           ir == InteractResult(h0, ListInput(messages[p]), {}, outcomes[n])
           built == BuildEntry(ir, "identity", entry_template[p])
       IN [history |-> ir.history, results |-> ResultsAfterTrial(prev.results, built)]

\* A step taken by a call on persona q
StepOf(q) ==
  \/ ResetCall(q)
  \/ \E input \in PairInputs, be \in PairOutcomes : PairInteract(q, input, be)
  \/ \E n \in 1..MaxPair : PairBegin(q, n, "out")
  \/ \E be \in PairOutcomes : PairTrial(q, be)
  \/ SaveReturn(q, TRUE)

\* C22: persona instances are independent. A reset, interact, evaluate trial
\* or return on one persona never changes the history or the records of
\* another, and however the trials of two evaluate calls interleave, each
\* persona's history and records are those of its own call run alone on the
\* backend outcomes it was given.
C22_IndependentPersonas ==
  /\ [](\A p \in Instances :
         pc[p] # "idle" =>
           /\ message_history[p] = RunAlone(p, fed[p]).history
           /\ evaluation_results[p] = RunAlone(p, fed[p]).results)
  /\ [][\A q \in Instances : StepOf(q) =>
          \A p \in Instances \ {q} :
            /\ message_history'[p] = message_history[p]
            /\ evaluation_results'[p] = evaluation_results[p]]_vars

\* Both calls ran two trials each after the later of them began, on different
\* backend outcomes, and both returned
C22_Witness ==
  /\ \A p \in Instances : pc[p] = "done" /\ Len(fed[p]) = 2
  /\ clock = 4
  /\ fed["A"] # fed["B"]
  /\ evaluation_results["A"] # evaluation_results["B"]
  /\ system_prompt["A"] # system_prompt["B"]
\* Both instances were reset and then given the same interact call, answered
\* alike by the backend, and hold the same system prompt
SameResetInteract ==
  /\ system_prompt["A"] = system_prompt["B"]
  /\ \A p \in Instances :
       last[p].called /\ last[p].before = ResetHistory(system_prompt[p])
  /\ last["A"].input = last["B"].input
  /\ last["A"].backendFailed = last["B"].backendFailed
  /\ last["A"].returned = last["B"].returned

\* The roles of the turns of a history, in order
Roles(history) == [i \in 1..Len(history) |-> history[i].role]

\* C23 as stated: two instances with the same system prompt and the same
\* backend behaviour, each reset and then given the same interact call, end
\* with equal histories of exactly three turns: system, user, assistant.
C23_ThreeTurnsAlike ==
  SameResetInteract =>
    /\ message_history["A"] = message_history["B"]
    /\ Roles(message_history["A"]) = <<"system", "user", "assistant">>

\* C23: two instances with the same system prompt and the same backend
\* behaviour, each reset and then given the same interact call, end with equal
\* histories: system, user, assistant turns when the backend answered, and
\* system, user turns when the backend call failed.
C23_SameStateAlike ==
  SameResetInteract =>
    /\ message_history["A"] = message_history["B"]
    /\ Roles(message_history["A"]) =
         IF last["A"].backendFailed THEN <<"system", "user">>
         ELSE <<"system", "user", "assistant">>
    /\ message_history["A"][1] = SystemTurn(system_prompt["A"])
    /\ ~last["A"].backendFailed =>
         message_history["A"][3] = AssistantTurn(last["A"].returned)

\* Both instances answered the same greeting after a reset
C23_Witness ==
  /\ SameResetInteract
  /\ last["A"].input = BareInput(StrMsg("hello"))
  /\ ~last["A"].backendFailed
  /\ Len(message_history["B"]) = 3
\* Both instances completed an evaluate_and_save call that wrote its records
BothSaved == \A p \in Instances : pc[p] = "done" /\ written[p] # <<>>

\* C30: the path evaluate_and_save writes is made of the destination
\* directory, the persona's name and the evaluator class, and not of the
\* backend's model label: two personas of one name on different backends,
\* saved into one directory, write one path, and once both calls have
\* completed the file there holds the records of the later call only.
C30_LaterCallOverwrites ==
  /\ \A p \in Instances :
       written[p] # <<>> =>
         written[p][1].path =
           save_in[p] \o "/" \o PersonaName(p) \o "_nielsenevaluator_evaluation_results.csv"
  /\ BothSaved =>
       /\ PersonaName("A") = PersonaName("B") /\ ModelName("A") # ModelName("B")
       /\ written["A"][1].path = written["B"][1].path
       /\ \E f \in disk :
            /\ disk = {f}
            /\ f.path = written["A"][1].path
            /\ f.rows = CsvRows(evaluation_results[f.by])

\* A saved one record, then B saved none: the file is left without records
C30_Witness ==
  /\ BothSaved
  /\ Len(evaluation_results["A"]) = 1
  /\ Len(evaluation_results["B"]) = 0
  /\ \E f \in disk : f.by = "B" /\ f.rows # written["A"][1].rows
\* ---- braces in string values (SpecExtract)
\* The whole text is one well-formed JSON object
WellFormedObject(t) == JsonLoads(t).raised = "" /\ JsonLoads(t).kind = "object"

\* Unit j of t lies between the quotes of a string
InString(t, j) == Cardinality({k \in 1..(j - 1) : t[k] = Q}) % 2 = 1

\* C24: the scanner counts braces inside quoted string values like
\* structural braces. For a well-formed object whose string value holds an
\* unpaired closing brace, the candidate ends at that brace, before the
\* object's end: parsing fails and no record is appended. For one whose string
\* value holds an unpaired opening brace the counter never returns to zero and
\* extraction fails.
C24_BracesInStringsCounted ==
  (outcome.done /\ WellFormedObject(raw_text)) =>
    /\ (outcome.raised = "" /\ outcome.json # raw_text) =>
         /\ outcome.json = SubSeq(raw_text, 1, Len(outcome.json))
         /\ InString(raw_text, Len(outcome.json))
         /\ outcome.parsed = "JSONDecodeError"
         /\ outcome.stage = "parse"
         /\ outcome.caught
         /\ outcome.records = 0
    /\ outcome.raised # "" =>
         /\ outcome.raised = "ValueError"
         /\ outcome.msg = "Could not extract complete JSON object"
         /\ \E j \in 1..Len(raw_text) : raw_text[j] = "{" /\ InString(raw_text, j)
         /\ outcome.stage = "extract"
         /\ outcome.records = 0
    /\ raw_text = RBraceInString =>
         outcome.raised = "" /\ outcome.json = SubSeq(raw_text, 1, 7)
    /\ raw_text = ROpenInString => outcome.raised = "ValueError"
    /\ raw_text = RPairInString => outcome.parsed = "ok" /\ outcome.records = 1

\* The object {"a": "}"} was cut at the brace inside its string value
C24_Witness ==
  /\ outcome.done
  /\ raw_text = RBraceInString
  /\ WellFormedObject(raw_text)
  /\ outcome.json = <<"{", Q, "a", Q, ":", Q, "}">>
  /\ outcome.parsed = "JSONDecodeError"
  /\ outcome.records = 0
\* The number of units of t equal to c
Count(t, c) == Cardinality({k \in 1..Len(t) : t[k] = c})

\* C27: for every text, _extract_json either returns a stretch of the text
\* that starts with an opening brace, ends with a closing brace and holds as
\* many opening as closing braces, or fails with ValueError: "No JSON object
\* found in text" exactly when the text holds no opening brace, "Could not
\* extract complete JSON object" when the first opening brace is never
\* balanced. The pop is never reached with an empty stack: no IndexError.
C27_BalancedOrValueError ==
  outcome.done =>
    /\ outcome.raised \in {"", "ValueError"}
    /\ outcome.raised = "" =>
         /\ outcome.json # <<>>
         /\ outcome.json[1] = "{"
         /\ outcome.json[Len(outcome.json)] = "}"
         /\ Count(outcome.json, "{") = Count(outcome.json, "}")
         /\ \E f \in 1..Len(raw_text) :
              outcome.json = SubSeq(raw_text, f, f + Len(outcome.json) - 1)
    /\ outcome.raised = "ValueError" =>
         IF HasBrace(raw_text)
           THEN /\ outcome.msg = "Could not extract complete JSON object"
                /\ ClosingBrace(raw_text, FirstBrace(raw_text, 1)) = 0
           ELSE outcome.msg = "No JSON object found in text"

\* A text that begins with closing braces: they are never scanned
C27_Witness ==
  /\ outcome.done
  /\ raw_text = <<"}", "}", "{", "}", "}">>
  /\ outcome.raised = ""
  /\ outcome.json = <<"{", "}">>
\* ---- the base record of a call (Spec)
\* C25: the base record of an evaluate call is built once, before the first
\* trial, and no merge changes it: during and after the call it is the record
\* of the call time, the persona's name and the backend's model label, and
\* every record whose parsed object has none of these keys carries the call
\* time (not the time of its trial), that name and that label.
C25_BaseRecordBuiltOnce ==
  \A p \in Personas :
    pc[p] \in {"loop", "done"} =>
      /\ entry_template[p] = EntryTemplate(p, 0)
      /\ \A k \in 1..Len(evaluation_results[p]) :
           LET obj == ParsedObject(okTrials[p][k][2])
               rec == evaluation_results[p][k]
           IN (DOMAIN obj) \cap BaseKeys = {} =>
                /\ rec[<<"timestamp">>] = <<"t0">>
                /\ rec[<<"timestamp">>] # <<"t" \o ToString(okTrials[p][k][1])>>
                /\ rec[<<"persona_name">>] = <<PersonaName(p)>>
                /\ rec[<<"model">>] = <<ModelName(p)>>

\* Three trials gave three records; the first object named a persona of its
\* own, the third none: the third record carries the call's metadata
C25_Witness ==
  /\ pc["A"] = "done"
  /\ clock = 3
  /\ Len(evaluation_results["A"]) = 3
  /\ okTrials["A"][1][2] = RCollide
  /\ okTrials["A"][3][2] = RGood
  /\ evaluation_results["A"][1][<<"persona_name">>] = <<Q, "Eve", Q>>
  /\ evaluation_results["A"][3][<<"persona_name">>] = <<"persona_A">>
  /\ evaluation_results["A"][3][<<"timestamp">>] = <<"t0">>
\* ---- merging reviews (SpecMerge)
\* C26 as stated: for every pair of existing and new review lists,
\* merge_reviews returns a list in which no two reviews share reviewer and
\* review_text, which retains every existing review, and which is sorted by
\* scraped_at, newest first.
C26_MergedWithoutDuplicates ==
  merged.done =>
    LET all == merged.all_reviews IN
    /\ \A i, j \in 1..Len(all) :
         (all[i].reviewer = all[j].reviewer /\ all[i].review_text = all[j].review_text)
           => i = j
    /\ \A k \in 1..Len(existing_reviews) :
         \E i \in 1..Len(all) : all[i] = existing_reviews[k]
    /\ \A i, j \in 1..Len(all) : i < j => all[i].scraped_at >= all[j].scraped_at
\* ---- parts interact does not recognise (SpecPersona)
\* Message m is one the normalisation loop has a branch for
Recognised(m) ==
  m.kind = "str" \/ (m.kind = "dict" /\ m.type \in {"text", "image", "audio"})

\* Message m is one whose branch can raise: an audio message, or an image
\* message whose file is among `missing`
Raising(m, missing) ==
  m.kind = "dict" /\ (m.type = "audio" \/ (m.type = "image" /\ m.path \in missing))

\* C28: interact drops every part it does not recognise without an error: in
\* a call none of whose recognised parts raises, the user turn is appended
\* with one stored part per recognised part, in order (an empty list when
\* none is recognised or the input is empty), and the backend is invoked with
\* it; the only failure left is that of the backend.
C28_UnknownPartsDropped ==
  \A p \in Personas :
    LET ms == AsList(last[p].input)
        kept == SelectSeq(ms, Recognised)
        turn == message_history[p][Len(last[p].before) + 1]
    IN (last[p].called /\ \A i \in 1..Len(ms) : ~Raising(ms[i], last[p].missing)) =>
         /\ last[p].raised \in {"", "BackendError"}
         /\ last[p].raised = "BackendError" <=> last[p].backendFailed
         /\ last[p].invoked
         /\ Len(message_history[p]) > Len(last[p].before)
         /\ turn.role = "user"
         /\ Len(turn.parts) = Len(kept)
         /\ \A j \in 1..Len(kept) :
              /\ kept[j].kind = "str" => turn.parts[j] = TextPart(kept[j].text)
              /\ (kept[j].kind = "dict" /\ kept[j].type = "text") =>
                   turn.parts[j] = TextPart(kept[j].text)
              /\ (kept[j].kind = "dict" /\ kept[j].type = "image") =>
                   turn.parts[j].type = "image_url"
         /\ last[p].sent = Append(last[p].before, turn)

\* A text between a video message and an integer: the user turn holds the
\* text alone, and the backend answered. The call before, of unknown parts or
\* none, had left an empty user turn, and its backend call failed
C28_Witness ==
  /\ last["A"].called
  /\ last["A"].input = ListInput(<<VideoMsg("clip"), StrMsg("hello"), IntMsg>>)
  /\ last["A"].raised = ""
  /\ message_history["A"][Len(last["A"].before) + 1].parts = <<TextPart("hello")>>
  /\ Len(last["A"].before) = 2
  /\ last["A"].before[2] = UserTurn(<<>>)
\* ---- the order of the turns (SpecPersona)
\* C29: after any sequence of reset and interact calls, failed or not, the
\* history holds exactly one system turn, the first; every assistant turn
\* stands right after a user turn, so no two assistant turns are adjacent; and
\* every call that extends the history appends a user turn and, right after
\* it, an assistant turn unless its backend call failed, so a user turn is
\* followed by another user turn only when its own backend call failed.
C29_TurnOrder ==
  /\ [](\A p \in Personas :
         LET h == message_history[p] IN
         /\ Len(h) >= 1
         /\ \A k \in 1..Len(h) : h[k].role = "system" <=> k = 1
         /\ \A k \in 1..Len(h) :
              h[k].role = "assistant" => (k > 1 /\ h[k - 1].role = "user")
         /\ \A k \in 1..(Len(h) - 1) :
              ~(h[k].role = "assistant" /\ h[k + 1].role = "assistant"))
  /\ [][\A p \in Personas :
          LET h == message_history[p]
              n == Len(message_history[p])
          IN message_history'[p] # h =>
               \/ ~last'[p].called /\ message_history'[p] = <<SystemTurn(system_prompt[p])>>
               \/ /\ last'[p].called /\ last'[p].invoked
                  /\ SubSeq(message_history'[p], 1, n) = h
                  /\ message_history'[p][n + 1].role = "user"
                  /\ IF last'[p].backendFailed
                       THEN Len(message_history'[p]) = n + 1
                       ELSE /\ Len(message_history'[p]) = n + 2
                            /\ message_history'[p][n + 2].role = "assistant"]_vars

\* A call whose backend failed, then one that was answered: two user turns
\* stand side by side, the assistant turn after the second
C29_Witness ==
  /\ system_prompt["A"] = "You are Ana"
  /\ Roles(message_history["A"]) = <<"system", "user", "user", "assistant">>
  /\ last["A"].called /\ ~last["A"].backendFailed
  /\ Roles(last["A"].before) = <<"system", "user">>
  /\ message_history["A"][2] # message_history["A"][3]
====
